---- MODULE Spec2Model ----
(***************************************************************************)
(* Sea-route optimiser: the PortSwitch candidate evaluator, the congestion *)
(* resolver and the name canonicaliser.                                    *)
(*                                                                         *)
(* Text is a sequence of one-character strings.  Floating-point numbers    *)
(* are fixed-point integers (two decimals unless stated) plus the three    *)
(* non-finite values PosInf, NegInf and NaN.  All ports lie on one         *)
(* meridian, so a coordinate is a latitude in whole degrees.               *)
(***************************************************************************)
EXTENDS Integers, Sequences, FiniteSets, TLC

\* ------------------------------------------------------------------ text

Max(a, b) == IF a >= b THEN a ELSE b
Min(a, b) == IF a <= b THEN a ELSE b
Abs(a) == IF a < 0 THEN -a ELSE a

\* Code points of the characters the model's names use (Python compares
\* strings by code point).
Ord(ch) ==
    CASE ch = " " -> 32 [] ch = "(" -> 40 [] ch = ")" -> 41 [] ch = "," -> 44
      [] ch = "-" -> 45 [] ch = "." -> 46 [] ch = "/" -> 47
      [] ch = "A" -> 65 [] ch = "B" -> 66 [] ch = "C" -> 67 [] ch = "D" -> 68
      [] ch = "E" -> 69 [] ch = "O" -> 79 [] ch = "P" -> 80 [] ch = "X" -> 88 [] ch = "Y" -> 89
      [] ch = "a" -> 97 [] ch = "b" -> 98 [] ch = "c" -> 99 [] ch = "d" -> 100
      [] ch = "e" -> 101 [] ch = "f" -> 102 [] ch = "g" -> 103 [] ch = "i" -> 105
      [] ch = "l" -> 108 [] ch = "m" -> 109 [] ch = "n" -> 110 [] ch = "o" -> 111
      [] ch = "p" -> 112 [] ch = "r" -> 114 [] ch = "s" -> 115 [] ch = "t" -> 116
      [] ch = "u" -> 117 [] ch = "x" -> 120 [] ch = "y" -> 121
      [] ch = "É" -> 201 [] ch = "é" -> 233
      [] OTHER -> 0

\* str.lower() on one character.
Lower(ch) ==
    CASE ch = "A" -> "a" [] ch = "B" -> "b" [] ch = "C" -> "c" [] ch = "D" -> "d"
      [] ch = "E" -> "e" [] ch = "O" -> "o" [] ch = "P" -> "p" [] ch = "X" -> "x" [] ch = "Y" -> "y"
      [] ch = "É" -> "é"
      [] OTHER -> ch

\* str.upper() on one character.
Upper(ch) ==
    CASE ch = "a" -> "A" [] ch = "b" -> "B" [] ch = "c" -> "C" [] ch = "d" -> "D"
      [] ch = "e" -> "E" [] ch = "o" -> "O" [] ch = "p" -> "P" [] ch = "x" -> "X" [] ch = "y" -> "Y"
      [] ch = "é" -> "É"
      [] OTHER -> ch

IsAlpha(ch) == Lower(ch) # ch \/ Upper(ch) # ch

\* string.punctuation, restricted to the characters of the model's names.
_PUNCT == {"(", ")", ",", "-", ".", "/"}

\* str.split() separates on whitespace.
IsSpace(ch) == ch = " "

\* unicodedata.normalize("NFKD", ch) with the combining marks dropped.
StripAccentChar(ch) ==
    CASE ch = "é" -> "e" [] ch = "É" -> "E" [] OTHER -> ch

_strip_accents(s) == [i \in 1..Len(s) |-> StripAccentChar(s[i])]

StrLower(s) == [i \in 1..Len(s) |-> Lower(s[i])]

\* The smallest index >= from at which ch occurs in s, or 0.
IndexFrom(s, ch, from) ==
    LET hits == {i \in from..Len(s) : s[i] = ch}
    IN IF hits = {} THEN 0 ELSE CHOOSE i \in hits : \A j \in hits : i <= j

\* re.sub(r"\(.*?\)", " ", s): each leftmost "(" with a later ")" is replaced,
\* up to the first ")" after it, by one space.
RECURSIVE SubParens(_)
SubParens(s) ==
    LET open == IndexFrom(s, "(", 1)
        close == IF open = 0 THEN 0 ELSE IndexFrom(s, ")", open + 1)
    IN IF open = 0 \/ close = 0 THEN s
       ELSE SubSeq(s, 1, open - 1) \o <<" ">> \o SubParens(SubSeq(s, close + 1, Len(s)))

PunctToSpace(s) == [i \in 1..Len(s) |-> IF s[i] \in _PUNCT THEN " " ELSE s[i]]

\* str.split(): the maximal runs of non-whitespace characters, in order.
RECURSIVE Split(_)
Split(s) ==
    IF s = <<>> THEN <<>>
    ELSE IF IsSpace(s[1]) THEN Split(Tail(s))
    ELSE LET stops == {i \in 1..Len(s) : IsSpace(s[i])}
             stop == IF stops = {} THEN Len(s) + 1
                     ELSE CHOOSE i \in stops : \A j \in stops : i <= j
         IN <<SubSeq(s, 1, stop - 1)>> \o Split(SubSeq(s, stop, Len(s)))

\* " ".join(tokens)
RECURSIVE Join(_)
Join(tokens) ==
    IF tokens = <<>> THEN <<>>
    ELSE IF Len(tokens) = 1 THEN tokens[1]
    ELSE tokens[1] \o <<" ">> \o Join(Tail(tokens))

_STOPWORDS ==
    { <<"p","o","r","t">>, <<"p","e","l","a","b","u","h","a","n">>, <<"p","e","l">>,
      <<"h","a","r","b","o","u","r">>, <<"h","a","r","b","o","r">>,
      <<"t","e","r","m","i","n","a","l">>, <<"m","a","r","i","n","e">>,
      <<"m","a","r","i","t","i","m","e">>, <<"o","f">>, <<"t","h","e">>,
      <<"p","t">>, <<"p","o","r","t","o","s">> }

\* The stopwords are dropped from the words between spaces before the
\* punctuation is replaced.
canon_nameFilterFirst(s) ==
    IF s = <<>> THEN <<>>
    ELSE LET s1 == StrLower(_strip_accents(s))
             s2 == SubParens(s1)
             kept == SelectSeq(Split(s2), LAMBDA t : t # <<>> /\ t \notin _STOPWORDS)
         IN Join(Split(PunctToSpace(Join(kept))))

canon_name(s) ==
    IF s = <<>> THEN <<>>
    ELSE LET s1 == StrLower(_strip_accents(s))
             s2 == SubParens(s1)
             s3 == PunctToSpace(s2)
             tokens == SelectSeq(Split(s3), LAMBDA t : t # <<>> /\ t \notin _STOPWORDS)
         IN Join(tokens)

\* Python's str < str: lexicographic by code point.
RECURSIVE StrLess(_, _)
StrLess(a, b) ==
    IF b = <<>> THEN FALSE
    ELSE IF a = <<>> THEN TRUE
    ELSE IF Ord(a[1]) # Ord(b[1]) THEN Ord(a[1]) < Ord(b[1])
    ELSE StrLess(Tail(a), Tail(b))

\* sorted(tokens), by insertion.
RECURSIVE InsertSorted(_, _)
InsertSorted(t, sorted) ==
    IF sorted = <<>> THEN <<t>>
    ELSE IF StrLess(t, sorted[1]) THEN <<t>> \o sorted
    ELSE <<sorted[1]>> \o InsertSorted(t, Tail(sorted))

RECURSIVE SortTokens(_)
SortTokens(tokens) ==
    IF tokens = <<>> THEN <<>>
    ELSE InsertSorted(tokens[1], SortTokens(Tail(tokens)))

\* Length of a longest common subsequence.
RECURSIVE LCSLen(_, _)
LCSLen(a, b) ==
    IF a = <<>> \/ b = <<>> THEN 0
    ELSE IF a[1] = b[1] THEN 1 + LCSLen(Tail(a), Tail(b))
    ELSE Max(LCSLen(Tail(a), b), LCSLen(a, Tail(b)))

\* A similarity score is the fraction 100 * n / d, kept exact as <<n, d>>.
RatGE(r, s) == r[1] * s[2] >= s[1] * r[2]
RatGT(r, s) == r[1] * s[2] > s[1] * r[2]
\* score >= threshold, the threshold on the 0-100 scale
ScoreMeets(r, threshold) == 100 * r[1] >= threshold * r[2]

\* rapidfuzz.fuzz.token_sort_ratio: the normalised indel similarity,
\* 2 * LCS / (len1 + len2), of the two strings with their tokens sorted.
token_sort_ratio(s1, s2) ==
    LET a == Join(SortTokens(Split(s1)))
        b == Join(SortTokens(Split(s2)))
    IN IF Len(a) + Len(b) = 0 THEN <<1, 1>>
       ELSE <<2 * LCSLen(a, b), Len(a) + Len(b)>>

\* rapidfuzz.process.extractOne keeps the first choice with the highest score.
rf_match(query_key, choices) ==
    IF choices = <<>> THEN [key |-> <<>>, score |-> <<0, 1>>]
    ELSE LET sc(i) == token_sort_ratio(query_key, choices[i])
             best == CHOOSE i \in 1..Len(choices) :
                        /\ \A j \in 1..Len(choices) : RatGE(sc(i), sc(j))
                        /\ \A j \in 1..(i - 1) : RatGT(sc(i), sc(j))
         IN [key |-> choices[best], score |-> sc(best)]

\* difflib.SequenceMatcher: the number of matched characters (Ratcliff and
\* Obershelp): the longest common block, earliest in a and then in b, plus
\* the matches to its left and to its right.
RECURSIVE MatchCount(_, _)
MatchCount(a, b) ==
    LET blocks == {t \in (1..Len(a)) \X (1..Len(b)) \X (1..Min(Len(a), Len(b))) :
                      /\ t[1] + t[3] - 1 <= Len(a)
                      /\ t[2] + t[3] - 1 <= Len(b)
                      /\ SubSeq(a, t[1], t[1] + t[3] - 1) = SubSeq(b, t[2], t[2] + t[3] - 1)}
        Better(t, u) == \/ t[3] > u[3]
                        \/ t[3] = u[3] /\ t[1] < u[1]
                        \/ t[3] = u[3] /\ t[1] = u[1] /\ t[2] <= u[2]
    IN IF blocks = {} THEN 0
       ELSE LET m == CHOOSE t \in blocks : \A u \in blocks : Better(t, u)
            IN m[3] + MatchCount(SubSeq(a, 1, m[1] - 1), SubSeq(b, 1, m[2] - 1))
                    + MatchCount(SubSeq(a, m[1] + m[3], Len(a)), SubSeq(b, m[2] + m[3], Len(b)))

\* SequenceMatcher(a, b).ratio() = 2 * M / T
difflib_ratio(a, b) ==
    IF Len(a) + Len(b) = 0 THEN <<1, 1>>
    ELSE <<2 * MatchCount(a, b), Len(a) + Len(b)>>

\* difflib.get_close_matches(word, choices, n=1, cutoff): the choices whose
\* ratio is >= cutoff, the largest (ratio, choice) first.  Returns <<>> (no
\* match) or the one-element list.
get_close_matches(word, choices, threshold) ==
    LET sc(i) == difflib_ratio(choices[i], word)
        ok == {i \in 1..Len(choices) : ScoreMeets(sc(i), threshold)}
        Above(i, j) == \/ RatGT(sc(i), sc(j))
                       \/ sc(i)[1] * sc(j)[2] = sc(j)[1] * sc(i)[2]
                          /\ (choices[i] = choices[j] \/ StrLess(choices[j], choices[i]))
    IN IF ok = {} THEN <<>>
       ELSE <<choices[CHOOSE i \in ok : \A j \in ok : Above(i, j)]>>

\* ---------------------------------------------------------------- floats

\* A float is a fixed-point integer or one of the non-finite values.
PosInf == 1000000000
NegInf == -1000000000
NaN == 2000000000

IsNaN(v) == v = NaN
IsFinite(v) == v # NaN /\ v # PosInf /\ v # NegInf

\* IEEE comparisons: every comparison with NaN is false.
FLe(a, b) == ~IsNaN(a) /\ ~IsNaN(b) /\ a <= b
FLt(a, b) == ~IsNaN(a) /\ ~IsNaN(b) /\ a < b

FNeg(a) == IF IsNaN(a) THEN NaN ELSE -a

FAdd(a, b) ==
    IF IsNaN(a) \/ IsNaN(b) THEN NaN
    ELSE IF ~IsFinite(a) THEN (IF ~IsFinite(b) /\ b # a THEN NaN ELSE a)
    ELSE IF ~IsFinite(b) THEN b
    ELSE a + b

FSub(a, b) == FAdd(a, FNeg(b))

\* a * k / d for a finite factor k >= 0 and a finite divisor d > 0
\* (the product of a float with a non-negative parameter).
FScale(a, k, d) ==
    IF IsNaN(a) THEN NaN
    ELSE IF ~IsFinite(a) THEN (IF k = 0 THEN NaN ELSE a)
    ELSE (a * k) \div d

\* ---------------------------------------------------------- data sources

\* Python's None: where a record (a file, a row, a result) is expected, and
\* where a text is expected.
None == [none |-> TRUE]
NoText == <<"<None>">>
\* A coordinate cell that float() rejects (_num returns None).
NoCoord == -999

Unknown == <<"U","n","k","n","o","w","n">>

\* str.strip()
RECURSIVE Strip(_)
Strip(s) ==
    IF s = <<>> THEN s
    ELSE IF IsSpace(s[1]) THEN Strip(Tail(s))
    ELSE IF IsSpace(s[Len(s)]) THEN Strip(SubSeq(s, 1, Len(s) - 1))
    ELSE s

\* str.title(): a cased character is upper-cased after an uncased one and
\* lower-cased after a cased one.
Title(s) ==
    [i \in 1..Len(s) |->
        IF i = 1 \/ ~IsAlpha(s[i - 1]) THEN Upper(s[i]) ELSE Lower(s[i])]

\* re.split(r"[(/,]| - ", c)[0]: the text before the first separator.
FirstField(c) ==
    LET seps == {i \in 1..Len(c) :
                    \/ c[i] \in {"(", "/", ","}
                    \/ i + 2 <= Len(c) /\ SubSeq(c, i, i + 2) = <<" ", "-", " ">>}
    IN IF seps = {} THEN c
       ELSE SubSeq(c, 1, (CHOOSE i \in seps : \A j \in seps : i <= j) - 1)

_norm_country(c) ==
    IF c = NoText THEN Unknown ELSE Title(Strip(FirstField(c)))

\* The index of the first row whose "Main Port Name" is name, or 0 (None).
RowIndex(name, rows) ==
    LET hits == {i \in 1..Len(rows) : rows[i].name = name}
    IN IF hits = {} THEN 0 ELSE CHOOSE i \in hits : \A j \in hits : i <= j

get_row_by_main(name, rows) ==
    IF RowIndex(name, rows) = 0 THEN None ELSE rows[RowIndex(name, rows)]

\* The row's latitude (its longitude is the common meridian).
latlon_from_row(r) == r.lat

\* The distinct elements of a sequence of texts, sorted: sorted(set(xs)).
RECURSIVE SortedSet(_)
SortedSet(xs) ==
    IF xs = <<>> THEN <<>>
    ELSE LET rest == SortedSet(Tail(xs))
         IN IF \E i \in 1..Len(rest) : rest[i] = xs[1] THEN rest
            ELSE InsertSorted(xs[1], rest)

SeqRange(xs) == {xs[i] : i \in 1..Len(xs)}

\* load_wpi on the rows of a gazetteer file: (rows, mains, country_col,
\* ports_by_country).  A file is [rows, has_country]; a row is
\* [name, lat, country].
load_wpi(file) ==
    LET rows == file.rows
        named == SelectSeq(rows, LAMBDA r : r.name # <<>>)
        names == [i \in 1..Len(named) |-> named[i].name]
        countries == {_norm_country(named[i].country) : i \in 1..Len(named)}
        of(c) == SelectSeq(named, LAMBDA r : _norm_country(r.country) = c)
    IN [rows |-> rows,
        mains |-> SortedSet(names),
        country_col |-> file.has_country,
        ports_by_country |->
            IF file.has_country
            THEN [c \in countries |-> SortedSet([i \in 1..Len(of(c)) |-> of(c)[i].name])]
            ELSE <<>>]

\* pd.to_numeric(text, errors="coerce"): the float the text denotes, in
\* hundredths of an hour, NaN for text that is no number.
to_numeric(text) ==
    CASE text = "0" -> 0 [] text = "5" -> 500 [] text = "10" -> 1000
      [] text = "-5" -> -500 [] text = "inf" -> PosInf [] text = "-inf" -> NegInf
      [] OTHER -> NaN

fillna(v, d) == IF IsNaN(v) THEN d ELSE v

\* The dict by_name after inserting (k, v): a new key goes last, a known
\* key keeps its place and takes the new value.
DictPut(d, k, v) ==
    IF \E i \in 1..Len(d.keys) : d.keys[i] = k
    THEN [d EXCEPT !.val = [x \in DOMAIN d.val |-> IF x = k THEN v ELSE d.val[x]]]
    ELSE [keys |-> Append(d.keys, k),
          val |-> [x \in DOMAIN d.val \cup {k} |-> IF x = k THEN v ELSE d.val[x]]]

EmptyDict == [keys |-> <<>>, val |-> <<>>]

Has(d, k) == k \in DOMAIN d.val

RECURSIVE BuildByName(_, _)
BuildByName(rows, d) ==
    IF rows = <<>> THEN d
    ELSE LET k == canon_name(rows[1].name)
             w == fillna(to_numeric(rows[1].wait), 0)
         IN BuildByName(Tail(rows), IF k = <<>> THEN d ELSE DictPut(d, k, w))

\* load_congestion_advanced on a congestion file [rows, has_geo], a row being
\* [name, wait, lat]; no file is None.  "geo" is None or the frame of the
\* rows with numeric coordinates, each [wait, lat].
load_congestion_advanced(file) ==
    IF file = None \/ file.rows = <<>> THEN [by_name |-> EmptyDict, geo |-> None]
    ELSE LET located == SelectSeq(file.rows, LAMBDA r : r.lat # NoCoord)
         IN [by_name |-> BuildByName(file.rows, EmptyDict),
             geo |-> IF file.has_geo
                     THEN [rows |-> [i \in 1..Len(located) |->
                              [wait |-> fillna(to_numeric(located[i].wait), 0),
                               lat |-> located[i].lat]]]
                     ELSE None]

RECURSIVE BuildAlias(_, _)
BuildAlias(rows, d) ==
    IF rows = <<>> THEN d
    ELSE LET wpi == canon_name(rows[1].wpi)
             src == canon_name(rows[1].src)
         IN BuildAlias(Tail(rows), IF wpi # <<>> /\ src # <<>> THEN DictPut(d, wpi, src) ELSE d)

\* load_alias_map on an alias file [rows], a row being [wpi, src]; no file
\* is None.
load_alias_map(file) ==
    IF file = None THEN EmptyDict ELSE BuildAlias(file.rows, EmptyDict)

\* ------------------------------------------------------------ geography

\* Hundredths of a nautical mile per degree of latitude:
\* 6371.0 * pi / 180 * 0.539957 = 60.04 NM.
NmPerDegree == 6004

\* _haversine_nm for two points of the common meridian, in hundredths of NM.
_haversine_nm(lat1, lat2) == Abs(lat2 - lat1) * NmPerDegree

\* nm -> km (* 1.852), hundredths in and out.
NmToKm(nm) == (nm * 1852) \div 1000

\* ------------------------------------------------- congestion resolver

\* The record of the geo frame nearest to the port: the first one at the
\* smallest distance ("if d < best_d"), as its index, 0 for an empty frame.
NearestGeo(geo_rows, wpi_lat) ==
    LET d(i) == NmToKm(_haversine_nm(wpi_lat, geo_rows[i].lat))
    IN IF geo_rows = <<>> THEN 0
       ELSE CHOOSE i \in 1..Len(geo_rows) :
               /\ \A j \in 1..Len(geo_rows) : d(i) <= d(j)
               /\ \A j \in 1..(i - 1) : d(j) > d(i)

\* "if ALIAS and wpi_key in ALIAS: ... if src_key in by_name"
AliasIgnored(alias, by_name, wpi_key) == FALSE
AliasHit(alias, by_name, wpi_key) ==
    alias.keys # <<>> /\ Has(alias, wpi_key) /\ Has(by_name, alias.val[wpi_key])

\* "score >= ps_controls.get("fuzzy_threshold", 88)"
FuzzyAcceptsStrictly(score, threshold) == 100 * score[1] > threshold * score[2]
FuzzyAccepts(score, threshold) == ScoreMeets(score, threshold)

\* "geo_radius_km > 0" and "best_d <= geo_radius_km", best_d in hundredths
GeoAcceptsAnyDistance(best_d, geo_radius_km) == geo_radius_km > 0
GeoAccepts(best_d, geo_radius_km) ==
    geo_radius_km > 0 /\ best_d <= geo_radius_km * 100

\* resolve_wait_for_port: the wait returned and the return statement that
\* returned it.  threshold is ps_controls["fuzzy_threshold"] (0-100),
\* geo_radius_km whole kilometres, rapid the value of has_rapidfuzz().
resolve_wait_for_port(wpi_name, wpi_lat, cong, alias, threshold, geo_radius_km, rapid) ==
    LET by_name == cong.by_name
        wpi_key == canon_name(wpi_name)
        src_key == alias.val[wpi_key]
        rf == rf_match(wpi_key, by_name.keys)
        match == get_close_matches(wpi_key, by_name.keys, threshold)
        geo_df == cong.geo
        best == NearestGeo(geo_df.rows, wpi_lat)
        best_d == NmToKm(_haversine_nm(wpi_lat, geo_df.rows[best].lat))
        geo_tail ==
            IF geo_df # None /\ wpi_lat # NoCoord /\ best # 0
               /\ GeoAccepts(best_d, geo_radius_km)
            THEN [wait |-> geo_df.rows[best].wait, step |-> "geo"]
            ELSE [wait |-> 0, step |-> "default"]
    IN IF by_name.keys = <<>> /\ geo_df = None
       THEN [wait |-> 0, step |-> "empty"]
       ELSE IF AliasHit(alias, by_name, wpi_key)
       THEN [wait |-> by_name.val[src_key], step |-> "alias"]
       ELSE IF Has(by_name, wpi_key)
       THEN [wait |-> by_name.val[wpi_key], step |-> "exact"]
       ELSE IF by_name.keys # <<>> /\ rapid /\ rf.key # <<>> /\ FuzzyAccepts(rf.score, threshold)
       THEN [wait |-> by_name.val[rf.key], step |-> "fuzzy"]
       ELSE IF by_name.keys # <<>> /\ ~rapid /\ match # <<>>
       THEN [wait |-> by_name.val[match[1]], step |-> "fuzzy"]
       ELSE geo_tail

\* -------------------------------------------------------------- routing

\* Whole kilometres per degree of latitude along the sea lane.
LaneKmPerDegree == 111
\* The extra kilometres of a northbound lane: the oracle's routes are not
\* symmetric.
LaneDetourKm == 20

\* The oracle raising an exception, and the pairs <<from, to>> for which it
\* does: the call fails for them every time.
RouteError == [raised |-> TRUE]
NoLane == {<<2, 5>>}

\* searoute(origin, destination, units="km"): the external routing oracle,
\* here a fixed table of lane lengths in whole km.
searoute(lat1, lat2) ==
    IF <<lat1, lat2>> \in NoLane THEN RouteError
    ELSE [coordinates |-> <<lat1, lat2>>,
          length |-> LaneKmPerDegree * Abs(lat2 - lat1) + (IF lat1 < lat2 THEN LaneDetourKm ELSE 0)]

maritime_route(lat1, lat2) == searoute(lat1, lat2)

\* compute_route: (coords, km, nm), nm = km * 0.539957 in hundredths of NM.
\* An exception of the oracle passes through.
compute_route(a_lat, b_lat) ==
    LET r == maritime_route(a_lat, b_lat)
    IN IF r = RouteError THEN RouteError
       ELSE [coords |-> r.coordinates,
             km |-> r.length,
             nm |-> (r.length * 539957) \div 10000]

\* eta_hours returning None
NoEta == -888

\* eta_hours: hundredths of NM over whole knots, in hundredths of an hour.
eta_hours(dist_nm, speed_kn) ==
    IF speed_kn <= 0 THEN NoEta ELSE dist_nm \div speed_kn

\* ------------------------------------------------------------ PortSwitch

\* s.replace(pat, "")
RECURSIVE StrRemove(_, _)
StrRemove(s, pat) ==
    IF Len(s) < Len(pat) THEN s
    ELSE IF SubSeq(s, 1, Len(pat)) = pat THEN StrRemove(SubSeq(s, Len(pat) + 1, Len(s)), pat)
    ELSE <<s[1]>> \o StrRemove(Tail(s), pat)

BaselineSuffix == <<" ","(","b","a","s","e","l","i","n","e",")">>

Contains(xs, x) == \E i \in 1..Len(xs) : xs[i] = x

\* The candidate list before the radius filter ("# candidate list"), and
\* whether it is the very list object held in ports_by_country.
CandidateList(route_info, rows, mains, ports_by_country, country_col, ps_controls) ==
    LET baseline_dest == route_info.destination
        baseline_row == get_row_by_main(StrRemove(baseline_dest, BaselineSuffix), rows)
        baseline_country ==
            IF baseline_row # None /\ country_col
            THEN _norm_country(baseline_row.country) ELSE Unknown
        by_country == ps_controls.same_country_only /\ country_col
        shared == by_country /\ baseline_country \in DOMAIN ports_by_country
        listed == IF by_country
                  THEN (IF shared THEN ports_by_country[baseline_country] ELSE <<>>)
                  ELSE mains
        candidates == IF Contains(listed, baseline_dest) THEN listed
                      ELSE Append(listed, baseline_dest)
    IN [candidates |-> candidates,
        baseline_row |-> baseline_row,
        ports_by_country |->
            IF shared
            THEN [c \in DOMAIN ports_by_country |->
                     IF c = baseline_country THEN candidates ELSE ports_by_country[c]]
            ELSE ports_by_country]

\* "ps_controls["radius_nm"] <= 0 or _haversine_nm(...) <= ps_controls["radius_nm"]"
WithinRadius(b_lat, plat, radius_nm) ==
    radius_nm <= 0 \/ _haversine_nm(b_lat, plat) <= radius_nm * 100

\* "# radius filter around baseline dest"
RadiusFilter(candidates, baseline_row, rows, radius_nm) ==
    IF baseline_row # None
    THEN SelectSeq(candidates, LAMBDA p :
            /\ get_row_by_main(p, rows) # None
            /\ WithinRadius(latlon_from_row(baseline_row),
                            latlon_from_row(get_row_by_main(p, rows)), radius_nm))
    ELSE candidates

\* A filter that lets the origin through.
KeepOrigin(cand_filtered, origin) == cand_filtered

\* "# origin should not be a candidate"
ExcludeOrigin(cand_filtered, origin) == SelectSeq(cand_filtered, LAMBDA p : p # origin)

\* A row whose fuel counts the transit time only.
RoutedRowTransitOnly(p, route, params, wait_h) ==
    LET eta == eta_hours(route.nm, params.speed_kn)
        eta_h == IF eta = NoEta \/ eta = 0 THEN 0 ELSE eta
        fuel_t == FScale(eta_h, params.cons_tpd, 24)
    IN [Port |-> p, Distance_NM |-> route.nm, ETA_h |-> eta_h, Wait_h |-> wait_h,
        Adj_ETA_h |-> FAdd(eta_h, wait_h), Fuel_t |-> fuel_t,
        CO2_t |-> FScale(fuel_t, params.ef, 1000),
        Cost_USD |-> FScale(fuel_t, params.fuel_price, 100),
        coords |-> route.coords]

\* One row of "results" for a candidate of latitude plat and wait wait_h:
\* its route, adjusted ETA, fuel, CO2 (hundredths) and cost (whole USD).
\* params = [speed_kn, cons_tpd, ef (thousandths), fuel_price].
RoutedRow(p, route, params, wait_h) ==
    LET eta == eta_hours(route.nm, params.speed_kn)
        eta_h == IF eta = NoEta \/ eta = 0 THEN 0 ELSE eta
        fuel_t == FScale(FAdd(eta_h, wait_h), params.cons_tpd, 24)
    IN [Port |-> p, Distance_NM |-> route.nm, ETA_h |-> eta_h, Wait_h |-> wait_h,
        Adj_ETA_h |-> FAdd(eta_h, wait_h), Fuel_t |-> fuel_t,
        CO2_t |-> FScale(fuel_t, params.ef, 1000),
        Cost_USD |-> FScale(fuel_t, params.fuel_price, 100),
        coords |-> route.coords]

\* The body of the compute loop for candidate p; no try/except surrounds
\* compute_route, so its exception is the outcome.
CandidateRow(p, plat, o_lat0, params, wait_h) ==
    IF compute_route(o_lat0, plat) = RouteError THEN RouteError
    ELSE RoutedRow(p, compute_route(o_lat0, plat), params, wait_h)

\* The candidates that get_row_by_main finds ("if not rw: continue").
Found(cand_filtered, rows) ==
    SelectSeq(cand_filtered, LAMBDA p : get_row_by_main(p, rows) # None)

\* "# compute candidates": the rows of the candidates found in the gazetteer.
Results(found, rows, o_lat0, params, cong, alias, threshold, geo_radius_km, is_rapid) ==
    [i \in 1..Len(found) |->
        CandidateRow(found[i], latlon_from_row(get_row_by_main(found[i], rows)), o_lat0, params,
                     resolve_wait_for_port(found[i],
                                           latlon_from_row(get_row_by_main(found[i], rows)),
                                           cong, alias, threshold, geo_radius_km, is_rapid).wait)]

\* A normalised value is a fixed-point fraction of NormScale.
NormScale == 10000

\* (x - min) / rng for a range that is neither NaN nor 0.
NormDiv(num, rng) ==
    IF IsNaN(num) THEN NaN
    ELSE IF ~IsFinite(rng) THEN (IF IsFinite(num) THEN 0 ELSE NaN)
    ELSE (num * NormScale) \div rng

\* Series.max() and Series.min() skip NaN; of nothing they are NaN.
ColMax(col) ==
    LET vs == {col[i] : i \in 1..Len(col)} \ {NaN}
    IN IF vs = {} THEN NaN ELSE CHOOSE v \in vs : \A u \in vs : u <= v
ColMin(col) ==
    LET vs == {col[i] : i \in 1..Len(col)} \ {NaN}
    IN IF vs = {} THEN NaN ELSE CHOOSE v \in vs : \A u \in vs : v <= u

\* norm_col on a column of floats.
norm_col(col) ==
    LET mn == ColMin(col)
        rng == FSub(ColMax(col), mn)
    IN IF IsNaN(rng) \/ rng = 0 THEN [i \in 1..Len(col) |-> 0]
       ELSE [i \in 1..Len(col) |-> NormDiv(FSub(col[i], mn), rng)]

\* One term of the score: a normalised value times a weight (a product with
\* NaN is NaN, whatever the weight).
FTimes(norm, w) == IF IsNaN(norm) THEN NaN ELSE norm * w

\* df["score"]
ScoreOf(eta_n, wait_n, cost_n, co2_n, ps_controls) ==
    FAdd(FAdd(FAdd(FTimes(eta_n, ps_controls.w_time), FTimes(wait_n, ps_controls.w_cong)),
              FTimes(cost_n, ps_controls.w_cost)),
         FTimes(co2_n, ps_controls.w_co2))

\* The frame with its normalised columns and its score, before the sort.
Scored(results, ps_controls) ==
    LET eta_n == norm_col([i \in 1..Len(results) |-> results[i].ETA_h])
        wait_n == norm_col([i \in 1..Len(results) |-> results[i].Wait_h])
        cost_n == norm_col([i \in 1..Len(results) |-> results[i].Cost_USD])
        co2_n == norm_col([i \in 1..Len(results) |-> results[i].CO2_t])
    IN [i \in 1..Len(results) |->
           [row |-> results[i], enum |-> i,
            ETA_h_norm |-> eta_n[i], Wait_h_norm |-> wait_n[i],
            Cost_USD_norm |-> cost_n[i], CO2_t_norm |-> co2_n[i],
            score |-> ScoreOf(eta_n[i], wait_n[i], cost_n[i], co2_n[i], ps_controls)]]

\* sort_values may leave row a just before row b.
MayPrecede(a, b) ==
    \/ ~IsNaN(a.score) /\ IsNaN(b.score)
    \/ ~IsNaN(a.score) /\ ~IsNaN(b.score) /\ a.score <= b.score
    \/ IsNaN(a.score) /\ IsNaN(b.score) /\ a.enum < b.enum

\* df.sort_values("score", ascending=True): the default sort is quicksort,
\* which is not stable, so rows of equal score come in any order; rows with
\* a NaN score go last, in their original order.
SortOutcomes(df) ==
    {[i \in 1..Len(df) |-> df[q[i]]] : q \in
        {o \in Permutations(1..Len(df)) : \A i \in 1..(Len(df) - 1) : MayPrecede(df[o[i]], df[o[i + 1]])}}

\* An exception left the compute loop.
Raises(results) == \E i \in 1..Len(results) : results[i] = RouteError

\* The frame of the results, scored (<<>> where the code returns None or
\* an exception leaves the function).
Frame(cand_filtered, results, ps_controls) ==
    IF cand_filtered = <<>> \/ results = <<>> \/ Raises(results) THEN <<>>
    ELSE Scored(results, ps_controls)

\* The outcome had the two "return None" guards been left out: an empty
\* frame has no columns to normalise.
OutcomeUnguarded(cl, cand_filtered, results, ps_controls) ==
    [df |-> Frame(cand_filtered, results, ps_controls),
     raised |-> Raises(results) \/ results = <<>>,
     ports_by_country |-> cl.ports_by_country]

\* What the call leaves: the frame, whether an exception left the function,
\* and ports_by_country.
Outcome(cl, cand_filtered, results, ps_controls) ==
    [df |-> Frame(cand_filtered, results, ps_controls),
     raised |-> Raises(results),
     ports_by_country |-> cl.ports_by_country]

\* evaluate_portswitch from "# radius filter" on, given the candidate list.
Evaluated(cl, cand_filtered, route_info, rows, params, cong, alias, geo_radius_km, ps_controls, is_rapid) ==
    Outcome(cl, cand_filtered,
            Results(Found(cand_filtered, rows), rows, route_info.coords_lonlat[1], params,
                    cong, alias, ps_controls.fuzzy_threshold, geo_radius_km, is_rapid),
            ps_controls)

Filtered(cl, route_info, rows, ps_controls) ==
    ExcludeOrigin(RadiusFilter(cl.candidates, cl.baseline_row, rows, ps_controls.radius_nm),
                  route_info.origin)

FromCandidates(cl, route_info, rows, params, cong, alias, geo_radius_km, ps_controls, is_rapid) ==
    Evaluated(cl, Filtered(cl, route_info, rows, ps_controls), route_info, rows, params,
              cong, alias, geo_radius_km, ps_controls, is_rapid)

\* evaluate_portswitch up to the sort: the scored frame, whether an
\* exception left the function, and ports_by_country as the call leaves it.
evaluate_portswitch(route_info, rows, mains, ports_by_country, country_col, params, cong, alias, geo_radius_km, ps_controls, is_rapid) ==
    IF route_info = None
    THEN [df |-> <<>>, raised |-> FALSE, ports_by_country |-> ports_by_country]
    ELSE FromCandidates(CandidateList(route_info, rows, mains, ports_by_country, country_col,
                                      ps_controls),
                        route_info, rows, params, cong, alias, geo_radius_km, ps_controls,
                        is_rapid)

\* --------------------------------------------------------------- inputs

PortAb == <<"P","o","r","t"," ","A","b">>
Ba == <<"B","a">>
Abc == <<"A","b","c">>
Pt == <<"P","t">>
AB_Port == <<"A","B"," ","(","P","o","r","t",")">>
Abd == <<"A","b","d">>

\* The gazetteer: two ports share a position, one has no country cell, one
\* canonicalises to the empty key.
WpiRows ==
    << [name |-> PortAb, lat |-> 0, country |-> <<"X">>],
       [name |-> Ba, lat |-> 2, country |-> <<"x"," ","(","a",")">>],
       [name |-> Abc, lat |-> 2, country |-> <<"Y">>],
       [name |-> Pt, lat |-> 5, country |-> NoText] >>

WpiFiles == { [rows |-> WpiRows, has_country |-> TRUE],
              [rows |-> WpiRows, has_country |-> FALSE] }

\* Rows of congestion files: wait cells that parse, that are negative,
\* infinite or no number; coordinate cells that parse or not.
CongRows ==
    { [name |-> AB_Port, wait |-> "5", lat |-> 0],
      [name |-> Ba, wait |-> "-5", lat |-> 2],
      [name |-> Ba, wait |-> "10", lat |-> NoCoord],
      [name |-> Abd, wait |-> "inf", lat |-> 2],
      [name |-> Abd, wait |-> "10", lat |-> 4],
      [name |-> Pt, wait |-> "abc", lat |-> 5] }

\* The longest congestion file.
MaxCongRows == 2

SeqsUpTo(S, n) == UNION {[1..k -> S] : k \in 0..n}

CongFiles ==
    {None} \cup {[rows |-> r, has_geo |-> g] : r \in SeqsUpTo(CongRows, MaxCongRows), g \in BOOLEAN}

AliasFiles ==
    { None,
      [rows |-> << [wpi |-> PortAb, src |-> Ba] >>],
      [rows |-> << [wpi |-> Abc, src |-> Abd], [wpi |-> Pt, src |-> Ba] >>] }

\* Slider positions of "Fuzzy match threshold" (0..100).
Thresholds == {0, 50, 80, 100}
\* Slider positions of "Geo nearest radius (km)" (0..200).
GeoRadii == {0, 50, 200}

\* ---------------------------------------------------------------- state

VARIABLES
    wpi,          \* load_wpi of the gazetteer file in use
    rapid,        \* has_rapidfuzz() of this installation
    CONG,         \* load_congestion_advanced of the uploaded file
    ALIAS,        \* load_alias_map of the uploaded file
    rw_call,      \* arguments of the last resolve_wait_for_port call, or None
    rw_ret,       \* what it returned
    route_info,   \* st.session_state.route_info
    ps_controls,  \* the values of the PortSwitch widgets
    ps_route,     \* the route_info the last evaluation was given, or None
    ps_result,    \* what the last evaluation returned: None or (df, best_row)
    ps_message,   \* what the last script run showed for it
    ports_by_country, \* ports_by_country of the last script run, after it
    fn_call,      \* a function called on its own: its name and arguments, or None
    fn_ret,       \* what it returned
    route_cache   \* the lru_cache of maritime_route, least recently used first

vars == <<wpi, rapid, CONG, ALIAS, rw_call, rw_ret,
          route_info, ps_controls, ps_route, ps_result, ps_message, ports_by_country,
          fn_call, fn_ret, route_cache>>

data_vars == <<wpi, rapid, CONG, ALIAS>>
resolver_vars == <<rw_call, rw_ret>>
call_vars == <<fn_call, fn_ret>>
cache_vars == <<route_cache>>

app_vars == <<route_info, ps_controls, ps_route, ps_result, ps_message, ports_by_country>>

\* The widgets' initial values: "Limit to same country" checked, 200 NM,
\* the four weights 0.25 (in twentieths), fuzzy threshold 88.
DefaultControls ==
    [same_country_only |-> TRUE, radius_nm |-> 200,
     w_time |-> 5, w_cong |-> 5, w_cost |-> 5, w_co2 |-> 5, fuzzy_threshold |-> 88]

\* Speed 18 kn, 30 t/day, VLSFO: factor 3.114, 600 USD/t.
DefaultParams == [speed_kn |-> 18, cons_tpd |-> 30, ef |-> 3114, fuel_price |-> 600]

\* "Geo nearest radius (km)" as the slider starts.
DefaultGeoRadiusKm == 50

\* The application before the first submit.
AppIdle ==
    /\ route_info = None
    /\ ps_controls = DefaultControls
    /\ ps_route = None
    /\ ps_result = None
    /\ ps_message = "nothing"
    /\ ports_by_country = wpi.ports_by_country

\* No call of the resolver is under way.
ResolverIdle == rw_call = None /\ rw_ret = None

\* No function is called on its own, in a process just started.
CallIdle == fn_call = None /\ fn_ret = None /\ route_cache = <<>>

\* The resolver as a function: the inputs are drawn, then it is called.
InitResolve ==
    /\ wpi = load_wpi([rows |-> WpiRows, has_country |-> TRUE])
    /\ rapid \in BOOLEAN
    /\ CONG \in {load_congestion_advanced(f) : f \in CongFiles}
    /\ ALIAS \in {load_alias_map(f) : f \in AliasFiles}
    /\ ResolverIdle
    /\ AppIdle
    /\ CallIdle

\* One call of the resolver, on a gazetteer port.
ResolveWait(name, lat, threshold, geo_radius_km) ==
    /\ rw_call = None
    /\ rw_call' = [name |-> name, lat |-> lat, threshold |-> threshold,
                   geo_radius_km |-> geo_radius_km]
    /\ rw_ret' = resolve_wait_for_port(name, lat, CONG, ALIAS, threshold, geo_radius_km, rapid)
    /\ UNCHANGED <<data_vars, app_vars, call_vars, cache_vars>>

\* The caller has used the result.
ResolveReturn ==
    /\ rw_call # None
    /\ rw_call' = None
    /\ rw_ret' = None
    /\ UNCHANGED <<data_vars, app_vars, call_vars, cache_vars>>

NextResolve ==
    \/ \E i \in 1..Len(wpi.rows), t \in Thresholds, g \in GeoRadii :
          \E lat \in {wpi.rows[i].lat, NoCoord} :
             ResolveWait(wpi.rows[i].name, lat, t, g)
    \/ ResolveReturn

SpecResolve == InitResolve /\ [][NextResolve]_vars

\* ------------------------------------------------------ the application

\* Congestion and alias files of the sessions: none; finite waits with
\* coordinates; a negative and both infinite waits, with an alias.
Sessions ==
    { [cong |-> None, alias |-> None],
      [cong |-> [rows |-> << [name |-> AB_Port, wait |-> "5", lat |-> 0],
                             [name |-> Ba, wait |-> "10", lat |-> 2],
                             [name |-> Pt, wait |-> "5", lat |-> 5] >>,
                 has_geo |-> TRUE],
       alias |-> None],
      [cong |-> [rows |-> << [name |-> AB_Port, wait |-> "-5", lat |-> 0],
                             [name |-> Ba, wait |-> "inf", lat |-> 2],
                             [name |-> Abd, wait |-> "-inf", lat |-> 2] >>,
                 has_geo |-> FALSE],
       alias |-> [rows |-> << [wpi |-> Abc, src |-> Abd] >>]] }

\* Voyages picked in "Pick ports from list" mode, <<origin, destination>>:
\* within a country, from a port without a country to itself, to a port
\* with a far neighbour.
PortVoyages == {<<PortAb, Ba>>, <<Pt, Pt>>, <<Abc, PortAb>>}
\* Voyages typed in "Enter coordinates" mode: latitudes of origin and
\* destination.
CustomVoyages == {<<0, 6>>}
OriginCustom == <<"O","r","i","g","i","n"," ","(","c","u","s","t","o","m",")">>
DestinationCustom ==
    <<"D","e","s","t","i","n","a","t","i","o","n"," ","(","c","u","s","t","o","m",")">>

\* Positions of "Max alt distance from baseline (NM)" and of the weights
\* (twentieths) that the sessions use.
RadiusSteps == {0, 200}
WeightSteps == {0, 5}

Init ==
    /\ wpi = load_wpi([rows |-> WpiRows, has_country |-> TRUE])
    /\ rapid = TRUE
    /\ \E f \in Sessions :
          /\ CONG = load_congestion_advanced(f.cong)
          /\ ALIAS = load_alias_map(f.alias)
    /\ ResolverIdle
    /\ AppIdle
    /\ CallIdle

\* "# ---------- Smart PortSwitch ----------": what one script run leaves,
\* given the route_info and the widget values it reads.  choose is whether
\* "Choose Best Route" was clicked.
Evaluation(ri, controls, W) ==
    evaluate_portswitch(ri, W.rows, W.mains, W.ports_by_country, W.country_col,
                        DefaultParams, CONG, ALIAS, DefaultGeoRadiusKm, controls, rapid)

Rendered(ri, controls, choose, ev) ==
    /\ ps_controls' = controls
    /\ ps_route' = ri
    /\ ports_by_country' = ev.ports_by_country
    /\ IF ev.raised
       THEN ps_result' = None /\ ps_message' = "exception" /\ route_info' = ri
       ELSE IF ev.df = <<>>
       THEN ps_result' = None /\ ps_message' = "info" /\ route_info' = ri
       ELSE \E df \in SortOutcomes(ev.df) :
               /\ ps_result' = [df |-> df, best_row |-> df[1]]
               /\ ps_message' = "table"
               /\ route_info' =
                     IF choose
                     THEN [ri EXCEPT !.destination = df[1].row.Port,
                                     !.coords_lonlat = df[1].row.coords]
                     ELSE ri
    /\ UNCHANGED <<data_vars, resolver_vars, cache_vars>>

Render(ri, controls, choose) ==
    /\ Rendered(ri, controls, choose, Evaluation(ri, controls, wpi))
    /\ UNCHANGED call_vars

\* compute_route raised inside "if submitted:": the script run ends there,
\* route_info stays and nothing below is drawn.
SubmitRaised ==
    /\ ps_route' = None
    /\ ps_result' = None
    /\ ps_message' = "exception"
    /\ UNCHANGED <<route_info, ps_controls, ports_by_country, data_vars, resolver_vars, cache_vars>>

\* The submit block once the route of the voyage is computed.
Submitted(o_name, d_name, route) ==
    IF route = RouteError THEN SubmitRaised /\ UNCHANGED call_vars
    ELSE Render([origin |-> o_name, destination |-> d_name,
                 legs |-> << [a |-> o_name, b |-> d_name, km |-> route.km, nm |-> route.nm] >>,
                 coords_lonlat |-> route.coords],
                ps_controls, FALSE)

\* "Compute / Update" in "Pick ports from list" mode, without stops.
SubmitPorts(origin, dest) ==
    LET o_row == get_row_by_main(origin, wpi.rows)
        d_row == get_row_by_main(dest, wpi.rows)
    IN /\ o_row # None /\ d_row # None
       /\ Submitted(origin, dest, compute_route(latlon_from_row(o_row), latlon_from_row(d_row)))

\* "Compute / Update" in "Enter coordinates" mode.
SubmitCustom(o_lat, d_lat) ==
    Submitted(OriginCustom, DestinationCustom, compute_route(o_lat, d_lat))

\* A PortSwitch widget is moved: the script runs again with the new value.
SetSameCountry(b) ==
    /\ route_info # None
    /\ wpi.country_col
    /\ b # ps_controls.same_country_only
    /\ Render(route_info, [ps_controls EXCEPT !.same_country_only = b], FALSE)

SetRadius(r) ==
    /\ route_info # None
    /\ r # ps_controls.radius_nm
    /\ Render(route_info, [ps_controls EXCEPT !.radius_nm = r], FALSE)

SetWeight(k, w) ==
    /\ route_info # None
    /\ w # ps_controls[k]
    /\ Render(route_info, [ps_controls EXCEPT ![k] = w], FALSE)

\* "Choose Best Route", shown under the table of the last run.
ChooseBest ==
    /\ ps_message = "table"
    /\ Render(route_info, ps_controls, TRUE)

Next ==
    \/ \E v \in PortVoyages : SubmitPorts(v[1], v[2])
    \/ \E v \in CustomVoyages : SubmitCustom(v[1], v[2])
    \/ \E b \in BOOLEAN : SetSameCountry(b)
    \/ \E r \in RadiusSteps : SetRadius(r)
    \/ \E k \in {"w_time", "w_cong", "w_cost", "w_co2"}, w \in WeightSteps : SetWeight(k, w)
    \/ ChooseBest

Spec == Init /\ [][Next]_vars

\* The function called on its own is the one of this name.
fnIs(name) == fn_call # None /\ fn_call.fn = name

\* ------------------------------------------------------ the cost model

\* "# CO2 & Fuel Cost" after submit: the summary of the main route of
\* dist_nm_total hundredths of NM.
RouteSummary(dist_nm_total, params) ==
    LET eta_total == eta_hours(dist_nm_total, params.speed_kn)
        hours == IF eta_total = NoEta \/ eta_total = 0 THEN 0 ELSE eta_total
        fuel_tonnes == FScale(hours, params.cons_tpd, 24)
    IN [eta_hours |-> eta_total, fuel_tonnes |-> fuel_tonnes,
        co2_tonnes |-> FScale(fuel_tonnes, params.ef, 1000),
        cost_usd |-> FScale(fuel_tonnes, params.fuel_price, 100)]

\* Speeds, consumptions, factors and prices the functions are called with:
\* the defaults, no consumption, a free fuel, and speeds that are no speeds.
ParamSets ==
    {[speed_kn |-> v, cons_tpd |-> c, ef |-> 3114, fuel_price |-> u] :
        v \in {-5, 0, 18}, c \in {0, 30}, u \in {0, 600}}

\* Total distances of main routes, in hundredths of NM: none, a short
\* route, 9000 NM.
Distances == {0, 13066, 900000}

\* The route_info values evaluate_portswitch is called with.
CallRoutes ==
    { [origin |-> PortAb, destination |-> Ba, coords_lonlat |-> <<0, 2>>],
      [origin |-> OriginCustom, destination |-> DestinationCustom, coords_lonlat |-> <<0, 6>>] }

InitCost ==
    /\ wpi = load_wpi([rows |-> WpiRows, has_country |-> TRUE])
    /\ rapid = TRUE
    /\ \E f \in Sessions :
          /\ CONG = load_congestion_advanced(f.cong)
          /\ ALIAS = load_alias_map(f.alias)
    /\ ResolverIdle
    /\ AppIdle
    /\ CallIdle

\* The route summary is computed.
SummaryCall(dist_nm_total, params) ==
    /\ fn_call = None
    /\ fn_call' = [fn |-> "summary", dist_nm_total |-> dist_nm_total, params |-> params]
    /\ fn_ret' = RouteSummary(dist_nm_total, params)
    /\ UNCHANGED <<data_vars, resolver_vars, app_vars, cache_vars>>

EvaluateReturned(ev) ==
    IF ev.raised THEN fn_ret' = [kind |-> "exception"]
    ELSE IF ev.df = <<>> THEN fn_ret' = [kind |-> "None"]
    ELSE \E df \in SortOutcomes(ev.df) :
            fn_ret' = [kind |-> "table", df |-> df, best_row |-> df[1]]

\* evaluate_portswitch is called.
EvaluateCall(ri, params, controls) ==
    /\ fn_call = None
    /\ fn_call' = [fn |-> "evaluate_portswitch", route_info |-> ri, params |-> params,
                   ps_controls |-> controls]
    /\ EvaluateReturned(evaluate_portswitch(ri, wpi.rows, wpi.mains, wpi.ports_by_country,
                                            wpi.country_col, params, CONG, ALIAS,
                                            DefaultGeoRadiusKm, controls, rapid))
    /\ UNCHANGED <<data_vars, resolver_vars, app_vars, cache_vars>>

\* The caller has used the result.
CallReturn ==
    /\ fn_call # None
    /\ fn_call' = None
    /\ fn_ret' = None
    /\ UNCHANGED <<data_vars, resolver_vars, app_vars, cache_vars>>

NextCost ==
    \/ \E d \in Distances, params \in ParamSets : SummaryCall(d, params)
    \/ \E ri \in CallRoutes, params \in ParamSets, b \in BOOLEAN :
          EvaluateCall(ri, params, [DefaultControls EXCEPT !.same_country_only = b])
    \/ CallReturn

SpecCost == InitCost /\ [][NextCost]_vars

\* ------------------------------------------------------ the route cache

\* maxsize of the lru_cache, scaled down (4096 in the code).
CacheSize == 2

\* A key that forgets the direction of the route.
CacheKeyUnordered(lat1, lat2) == <<Min(lat1, lat2), Max(lat1, lat2)>>

\* The key lru_cache makes of the arguments (lon1, lat1, lon2, lat2, units):
\* the longitude is the meridian's and units is "km" in every call.
CacheKey(lat1, lat2) == <<lat1, lat2>>

\* Where the key is in the cache, 0 when it is not.
CacheIndex(cache, key) ==
    IF \E i \in 1..Len(cache) : cache[i].key = key
    THEN CHOOSE i \in 1..Len(cache) : cache[i].key = key
    ELSE 0

\* The entries without the i-th.
Without(cache, i) == [j \in 1..(Len(cache) - 1) |-> IF j < i THEN cache[j] ELSE cache[j + 1]]

\* A new entry is stored; the least recently used one goes when the cache
\* is full.
Stored(cache, entry) ==
    IF Len(cache) >= CacheSize THEN Append(Tail(cache), entry) ELSE Append(cache, entry)

\* maritime_route under @lru_cache: a hit returns the stored value and makes
\* the entry the most recent one; a miss calls the oracle and stores what it
\* returns; an exception of the oracle is not stored.
CachedRoute(cache, key, i, lat1, lat2) ==
    IF i # 0
    THEN [value |-> cache[i].value, oracle_called |-> FALSE,
          cache |-> Append(Without(cache, i), cache[i])]
    ELSE IF searoute(lat1, lat2) = RouteError
    THEN [value |-> RouteError, oracle_called |-> TRUE, cache |-> cache]
    ELSE [value |-> searoute(lat1, lat2), oracle_called |-> TRUE,
          cache |-> Stored(cache, [key |-> key, value |-> searoute(lat1, lat2)])]

\* compute_route on what maritime_route returned.
RouteOf(r) ==
    IF r = RouteError THEN RouteError
    ELSE [coords |-> r.coordinates, km |-> r.length, nm |-> (r.length * 539957) \div 10000]

\* Latitudes of the endpoints of the calls.
CallLats == {0, 2, 5}

InitCache ==
    /\ wpi = load_wpi([rows |-> WpiRows, has_country |-> TRUE])
    /\ rapid = TRUE
    /\ CONG = load_congestion_advanced(None)
    /\ ALIAS = load_alias_map(None)
    /\ ResolverIdle
    /\ AppIdle
    /\ CallIdle

ComputeRouteDone(a_lat, b_lat, i, r) ==
    /\ fn_call' = [fn |-> "compute_route", a_lat |-> a_lat, b_lat |-> b_lat,
                   cached |-> (i # 0),
                   reverse_cached |-> (CacheIndex(route_cache, <<b_lat, a_lat>>) # 0)]
    /\ fn_ret' = [value |-> RouteOf(r.value), oracle_called |-> r.oracle_called]
    /\ route_cache' = r.cache

ComputeRouteAt(a_lat, b_lat, key, i) ==
    ComputeRouteDone(a_lat, b_lat, i, CachedRoute(route_cache, key, i, a_lat, b_lat))

\* compute_route(a_lat, a_lon, b_lat, b_lon) is called.
ComputeRouteCall(a_lat, b_lat) ==
    /\ fn_call = None
    /\ ComputeRouteAt(a_lat, b_lat, CacheKey(a_lat, b_lat),
                      CacheIndex(route_cache, CacheKey(a_lat, b_lat)))
    /\ UNCHANGED <<data_vars, resolver_vars, app_vars>>

\* The process is started again: the cache is gone.
ProcessRestart ==
    /\ fn_call = None
    /\ route_cache # <<>>
    /\ route_cache' = <<>>
    /\ UNCHANGED <<data_vars, resolver_vars, app_vars, call_vars>>

NextCache ==
    \/ \E a_lat, b_lat \in CallLats : ComputeRouteCall(a_lat, b_lat)
    \/ CallReturn
    \/ ProcessRestart

SpecCache == InitCache /\ [][NextCache]_vars

\* ------------------------------------------------ the path of a voyage

\* The most intermediate stops of a voyage.
MaxStops == 2

\* A gazetteer with a fifth port, north of the others.
Od == <<"O","d">>
StopRows == WpiRows \o << [name |-> Od, lat |-> 8, country |-> <<"Y">>] >>

\* The options of "Intermediate stops (optional)".
stop_opts(mains, origin, dest) == SelectSeq(mains, LAMBDA m : m # origin /\ m # dest)

\* What the multiselect can return: the options picked, in the order picked.
StopChoices(opts) ==
    {st \in SeqsUpTo(SeqRange(opts), MaxStops) :
        \A i, j \in 1..Len(st) : i # j => st[i] # st[j]}

\* A sum of leg lengths that could not be computed: compute_route raised.
NmRaised == -1

\* (lat, lon, name) of a port of the list.
Stop(name, rows) == [lat |-> latlon_from_row(get_row_by_main(name, rows)), name |-> name]

\* seq = [o_name, *perm, d_name], resolved.
Resolved(o, d, perm, rows) ==
    <<o>> \o [i \in 1..Len(perm) |-> Stop(perm[i], rows)] \o <<d>>

\* nm_sum of a resolved sequence.
RECURSIVE PathNm(_)
PathNm(resolved) ==
    IF Len(resolved) < 2 THEN 0
    ELSE IF compute_route(resolved[1].lat, resolved[2].lat) = RouteError THEN NmRaised
    ELSE IF PathNm(Tail(resolved)) = NmRaised THEN NmRaised
    ELSE compute_route(resolved[1].lat, resolved[2].lat).nm + PathNm(Tail(resolved))

\* The stops in the order of the permutation p of their positions.
PermOf(stops, p) == [i \in 1..Len(stops) |-> stops[p[i]]]

\* itertools.permutations yields p before q.
LexBefore(p, q) ==
    \E k \in DOMAIN p : p[k] < q[k] /\ \A j \in 1..(k - 1) : p[j] = q[j]

\* The brute-force search: every permutation is routed; the first one of
\* the least nm_sum is kept (nm_sum < best_nm).
BestPerm(o, d, stops, rows, perms) ==
    CHOOSE p \in perms :
        \A q \in perms \ {p} :
            \/ PathNm(Resolved(o, d, PermOf(stops, p), rows))
                  < PathNm(Resolved(o, d, PermOf(stops, q), rows))
            \/ /\ PathNm(Resolved(o, d, PermOf(stops, p), rows))
                     = PathNm(Resolved(o, d, PermOf(stops, q), rows))
               /\ LexBefore(p, q)

\* "# path building (with optional stop optimization)", in "Pick ports from
\* list" mode: the chosen path, or the exception of a leg of the search.
chosen_path(o, d, stops, optimize, rows) ==
    IF stops # <<>>
    THEN IF optimize
         THEN IF \E p \in Permutations(1..Len(stops)) :
                    PathNm(Resolved(o, d, PermOf(stops, p), rows)) = NmRaised
              THEN [raised |-> TRUE, path |-> <<o>>]
              ELSE [raised |-> FALSE,
                    path |-> Resolved(o, d, PermOf(stops, BestPerm(o, d, stops, rows,
                                                       Permutations(1..Len(stops)))), rows)]
         ELSE [raised |-> FALSE, path |-> <<o>>]
    ELSE [raised |-> FALSE, path |-> <<o, d>>]

\* Every leg's vertices are appended whole.
LegCoordsWhole(coords, i) == coords

\* coords if i==0 else coords[1:]  (i counts from 1 here)
LegCoords(coords, i) == IF i = 1 THEN coords ELSE Tail(coords)

\* "# build final route (lon,lat)": the loop from leg i on.
RECURSIVE BuildRoute(_, _, _)
BuildRoute(path, i, acc) ==
    IF i > Len(path) - 1 THEN acc
    ELSE IF compute_route(path[i].lat, path[i + 1].lat) = RouteError
    THEN [acc EXCEPT !.raised = TRUE]
    ELSE BuildRoute(path, i + 1,
            [raised |-> FALSE,
             route_coords |-> acc.route_coords
                                \o LegCoords(compute_route(path[i].lat, path[i + 1].lat).coords, i),
             dist_km_total |-> acc.dist_km_total + compute_route(path[i].lat, path[i + 1].lat).km,
             dist_nm_total |-> acc.dist_nm_total + compute_route(path[i].lat, path[i + 1].lat).nm,
             leg_summ |-> Append(acc.leg_summ,
                                 [a |-> path[i].name, b |-> path[i + 1].name,
                                  km |-> compute_route(path[i].lat, path[i + 1].lat).km,
                                  nm |-> compute_route(path[i].lat, path[i + 1].lat).nm])])

FinalRoute(path) ==
    BuildRoute(path, 1, [raised |-> FALSE, route_coords |-> <<>>, dist_km_total |-> 0,
                         dist_nm_total |-> 0, leg_summ |-> <<>>])

\* st.session_state.route_info = dict(...)
RouteInfo(o_name, d_name, built) ==
    [origin |-> o_name, destination |-> d_name,
     distance_km |-> built.dist_km_total, distance_nm |-> built.dist_nm_total,
     legs |-> built.leg_summ, coords_lonlat |-> built.route_coords]

\* "# 4) Render" of a stored route: oc[0] raises for a route without
\* vertices, before the PortSwitch section is reached.
RouteRendered(ri) ==
    IF ri.coords_lonlat = <<>>
    THEN /\ route_info' = ri
         /\ ps_route' = None
         /\ ps_result' = None
         /\ ps_message' = "exception"
         /\ UNCHANGED <<ps_controls, ports_by_country, data_vars, resolver_vars, cache_vars>>
    ELSE Rendered(ri, ps_controls, FALSE, Evaluation(ri, ps_controls, wpi))

RouteBuilt(o_name, d_name, built) ==
    IF built.raised THEN SubmitRaised ELSE RouteRendered(RouteInfo(o_name, d_name, built))

PathChosen(o_name, d_name, cp) ==
    IF cp.raised THEN SubmitRaised ELSE RouteBuilt(o_name, d_name, FinalRoute(cp.path))

\* "Compute / Update" in "Pick ports from list" mode, with the stops picked
\* and "Optimize order of intermediate stops" as it stands.
SubmitStops(origin, dest, stops, optimize) ==
    /\ get_row_by_main(origin, wpi.rows) # None
    /\ get_row_by_main(dest, wpi.rows) # None
    /\ fn_call' = [fn |-> "submit", origin |-> origin, dest |-> dest, stops |-> stops,
                   optimize |-> optimize]
    /\ fn_ret' = None
    /\ PathChosen(origin, dest,
                  chosen_path(Stop(origin, wpi.rows), Stop(dest, wpi.rows), stops, optimize,
                              wpi.rows))

\* Voyages of the sessions with stops, <<origin, destination>>.
StopVoyages == {<<Ba, Abc>>, <<Pt, PortAb>>, <<PortAb, Pt>>}

InitPath ==
    /\ wpi = load_wpi([rows |-> StopRows, has_country |-> TRUE])
    /\ rapid = TRUE
    /\ CONG = load_congestion_advanced(None)
    /\ ALIAS = load_alias_map(None)
    /\ ResolverIdle
    /\ AppIdle
    /\ CallIdle

NextPath ==
    \E v \in StopVoyages, optimize \in BOOLEAN :
        \E stops \in StopChoices(stop_opts(wpi.mains, v[1], v[2])) :
            SubmitStops(v[1], v[2], stops, optimize)

SpecPath == InitPath /\ [][NextPath]_vars

\* ------------------------------------------------------ canonical names

\* The most pieces of a name.
MaxPieces == 2

\* What names are made of: letters of either case, an accented letter,
\* stopwords, a space, parentheses, a hyphen, and a few longer pieces.
NamePieces ==
    { <<"A">>, <<"b">>, <<"É">>, <<"p","o","r","t">>, <<"P","t">>,
      <<" ">>, <<"(">>, <<")">>, <<"-">>,
      <<"A","-">>, <<" ","p","o","r","t">>, <<"(","b",")">> }

RECURSIVE Concat(_)
Concat(pieces) == IF pieces = <<>> THEN <<>> ELSE pieces[1] \o Concat(Tail(pieces))

PortOfAb == <<"P","o","r","t"," ","o","f"," ","A","b">>

\* The names canon_name is called with.
Names == {Concat(ps) : ps \in SeqsUpTo(NamePieces, MaxPieces)} \cup {PortOfAb, AB_Port}

\* s without its i-th element.
Dropped(s, i) == SubSeq(s, 1, i - 1) \o SubSeq(s, i + 1, Len(s))

\* The letter in the other case.
SwapCase(ch) == IF Lower(ch) # ch THEN Lower(ch) ELSE Upper(ch)

\* The names that differ from x in one place only: by the case of a
\* letter, by the accent of a letter, by a punctuation character, or by a
\* word between spaces that is a stopword.
Variants(x) ==
    {[differ |-> "case", name |-> [x EXCEPT ![i] = SwapCase(x[i])]] :
        i \in {j \in 1..Len(x) : IsAlpha(x[j])}}
    \cup {[differ |-> "accent", name |-> [x EXCEPT ![i] = StripAccentChar(x[i])]] :
        i \in {j \in 1..Len(x) : StripAccentChar(x[j]) # x[j]}}
    \cup {[differ |-> "punctuation", name |-> Dropped(x, i)] :
        i \in {j \in 1..Len(x) : x[j] \in _PUNCT}}
    \cup {[differ |-> "stopword", name |-> Join(Dropped(Split(x), i))] :
        i \in {j \in 1..Len(Split(x)) : StrLower(Split(x)[j]) \in _STOPWORDS}}

\* A congestion file of one row, for the port of this name.
OneRowFile(name) == [rows |-> << [name |-> name, wait |-> "5", lat |-> NoCoord] >>, has_geo |-> FALSE]

InitCanon ==
    /\ wpi = load_wpi([rows |-> WpiRows, has_country |-> TRUE])
    /\ rapid = TRUE
    /\ CONG = load_congestion_advanced(None)
    /\ ALIAS = load_alias_map(None)
    /\ ResolverIdle
    /\ AppIdle
    /\ CallIdle

\* canon_name(x), and canon_name of what it returned.
CanonCall(x) ==
    /\ fn_call = None
    /\ fn_call' = [fn |-> "canon_name", s |-> x]
    /\ fn_ret' = [key |-> canon_name(x), again |-> canon_name(canon_name(x))]
    /\ UNCHANGED <<data_vars, resolver_vars, app_vars, cache_vars>>

\* A congestion file names a port a; the key of the name b is looked up in
\* the by_name that load_congestion_advanced makes of the file.
JoinCall(a, b, differ) ==
    /\ fn_call = None
    /\ fn_call' = [fn |-> "join", a |-> a, b |-> b, differ |-> differ]
    /\ fn_ret' = [ka |-> canon_name(a), kb |-> canon_name(b),
                  by_name |-> load_congestion_advanced(OneRowFile(a)).by_name]
    /\ UNCHANGED <<data_vars, resolver_vars, app_vars, cache_vars>>

NextCanon ==
    \/ \E x \in Names : CanonCall(x)
    \/ \E x \in Names : \E v \in Variants(x) : JoinCall(x, v.name, v.differ)
    \/ JoinCall(PortOfAb, AB_Port, "example")
    \/ CallReturn

SpecCanon == InitCanon /\ [][NextCanon]_vars

\* ------------------------------------------------------ the risk scan

\* 1 degree = 111.32 km: positions are in hundredths of a km of the plane
\* of degrees, a route vertex on the common meridian at x = 0.
UnitsPerDegree == 11132

Sq(v) == v * v

\* Squared distance of the point from the segment of the meridian between
\* the latitudes y1 and y2.
SegDist2(pt, y1, y2) ==
    IF pt.y < Min(y1, y2) THEN Sq(pt.x) + Sq(Min(y1, y2) - pt.y)
    ELSE IF pt.y > Max(y1, y2) THEN Sq(pt.x) + Sq(pt.y - Max(y1, y2))
    ELSE Sq(pt.x)

\* route_line: the latitudes of the vertices, in units.
route_line(route_coords_lonlat) ==
    [i \in 1..Len(route_coords_lonlat) |-> route_coords_lonlat[i] * UnitsPerDegree]

\* Squared distance of the point from the line.
LineDist2(pt, line) ==
    LET ds == {SegDist2(pt, line[k], line[k + 1]) : k \in 1..(Len(line) - 1)}
    IN CHOOSE d \in ds : \A e \in ds : d <= e

\* The point is beside a segment, closer than buf: inside the flat part of
\* the buffer.
BesideLine(pt, line, buf) ==
    \E k \in 1..(Len(line) - 1) :
        /\ Min(line[k], line[k + 1]) <= pt.y /\ pt.y <= Max(line[k], line[k + 1])
        /\ Abs(pt.x) < buf

\* buf_geom.intersects(pt), for buf_geom = route_line.buffer(buf): the
\* buffer is a polygon; its round ends are inscribed in the circle of
\* radius buf, with 16 segments to a quarter circle, so that a point at
\* more than 0.998 buf from an end of the line, or at buf from its side,
\* is inside or not by its direction and by rounding.
SurelyInside(pt, line, buf) ==
    BesideLine(pt, line, buf) \/ LineDist2(pt, line) <= (Sq(buf) \div 1000) * 996
SurelyOutside(pt, line, buf) == LineDist2(pt, line) > Sq(buf)

\* LON.between(min_lon, max_lon) & LAT.between(min_lat, max_lat), the box
\* of the vertices widened by buf_deg*1.5.
InBox(pt, line, buf) ==
    /\ 0 - (3 * buf) \div 2 <= pt.x /\ pt.x <= 0 + (3 * buf) \div 2
    /\ \E k \in 1..Len(line) : line[k] - (3 * buf) \div 2 <= pt.y
    /\ \E k \in 1..Len(line) : pt.y <= line[k] + (3 * buf) \div 2

\* What the scan of a table of incidents can return.
Scanned(line, rows, buf, cand) ==
    {[raised |-> FALSE, cand |-> cand,
      risk_hits |-> Cardinality({pt \in cand : SurelyInside(pt, line, buf)}) + k,
      total_inc |-> Cardinality(rows)] :
        k \in 0..Cardinality({pt \in cand : ~SurelyInside(pt, line, buf)
                                              /\ ~SurelyOutside(pt, line, buf)})}

\* piracy_hits_along_route: the outcomes; min() of no longitudes raises.
piracy_hits_along_route(route_coords_lonlat, piracy_df, buffer_km) ==
    IF piracy_df = None \/ piracy_df.rows = {}
    THEN {[raised |-> FALSE, cand |-> {}, risk_hits |-> 0, total_inc |-> 0]}
    ELSE IF route_coords_lonlat = <<>>
    THEN {[raised |-> TRUE, cand |-> {}, risk_hits |-> 0, total_inc |-> 0]}
    ELSE Scanned(route_line(route_coords_lonlat), piracy_df.rows, buffer_km * 100,
                 {pt \in piracy_df.rows :
                     InBox(pt, route_line(route_coords_lonlat), buffer_km * 100)})

\* Incidents: on the line at 1N; beside it at 10 km and just beyond; off
\* the corner of its end at 2N; just inside 10 km north of that end; far
\* to the north.
Incidents ==
    { [x |-> 0, y |-> 11132], [x |-> 1000, y |-> 11132], [x |-> 1001, y |-> 11132],
      [x |-> 800, y |-> 23064], [x |-> 0, y |-> 23263], [x |-> 0, y |-> 33396] }

\* The incident tables: none uploaded, or the cleaned rows of a file.
RiskTables == {None} \cup {[rows |-> r] : r \in SUBSET Incidents}

\* Vertex sequences of routes: a leg, two legs, southbound, a route from a
\* port to itself, and the route of a path without legs.
RiskRoutes == {<<0, 2>>, <<0, 1, 2>>, <<2, 0>>, <<2, 2>>, <<>>}

\* Positions of "Risk buffer (km)".
RiskBuffers == {10, 50}

InitRisk ==
    /\ wpi = load_wpi([rows |-> WpiRows, has_country |-> TRUE])
    /\ rapid = TRUE
    /\ CONG = load_congestion_advanced(None)
    /\ ALIAS = load_alias_map(None)
    /\ ResolverIdle
    /\ AppIdle
    /\ CallIdle

\* "# Piracy risk": the scan is called.
RiskCall(route_coords, piracy_df, buffer_km) ==
    /\ fn_call = None
    /\ fn_call' = [fn |-> "piracy_hits_along_route", route_coords_lonlat |-> route_coords,
                   piracy_df |-> piracy_df, buffer_km |-> buffer_km]
    /\ fn_ret' \in piracy_hits_along_route(route_coords, piracy_df, buffer_km)
    /\ UNCHANGED <<data_vars, resolver_vars, app_vars, cache_vars>>

NextRisk ==
    \/ \E r \in RiskRoutes, t \in RiskTables, b \in RiskBuffers : RiskCall(r, t, b)
    \/ CallReturn

SpecRisk == InitRisk /\ [][NextRisk]_vars

\* ------------------------------------------- claims about the resolver

\* The call under consideration.
rwKey == canon_name(rw_call.name)
rwByName == CONG.by_name
rwAliasTarget == ALIAS.val[rwKey]
rwAliasApplies == rwKey \in DOMAIN ALIAS.val /\ rwAliasTarget \in DOMAIN rwByName.val
rwExactApplies == rwKey \in DOMAIN rwByName.val
\* The score of an index key against the port's key, by the installed scorer.
rwScore(k) == IF rapid THEN token_sort_ratio(rwKey, k) ELSE difflib_ratio(k, rwKey)
rwScores == [k \in DOMAIN rwByName.val |-> rwScore(k)]
rwBest(sc) == {k \in DOMAIN sc : \A j \in DOMAIN sc : RatGE(sc[k], sc[j])}
rwFuzzyApplies ==
    LET sc == rwScores
    IN \E k \in rwBest(sc) : 100 * sc[k][1] >= rw_call.threshold * sc[k][2]
rwGeoRows == IF CONG.geo = None THEN <<>> ELSE CONG.geo.rows
rwDistKm(i) == (Abs(rwGeoRows[i].lat - rw_call.lat) * NmPerDegree * 1852) \div 1000
rwNearest == {i \in 1..Len(rwGeoRows) : \A j \in 1..Len(rwGeoRows) : rwDistKm(i) <= rwDistKm(j)}
rwTailReached == ~rwAliasApplies /\ ~rwExactApplies /\ ~rwFuzzyApplies

\* C1: a port whose key has an alias entry with its target in the congestion
\* index gets the target's wait, even if its own key is in the index too; a
\* port without such an alias whose key is in the index gets that key's wait.
C1_AliasThenExact ==
    rw_call # None =>
        /\ rwAliasApplies => rw_ret.wait = rwByName.val[rwAliasTarget]
        /\ (~rwAliasApplies /\ rwExactApplies) => rw_ret.wait = rwByName.val[rwKey]

\* C1 witness: resolved through an alias whose target's wait differs from the
\* wait recorded under the port's own key.
C1_Witness ==
    /\ rw_call # None
    /\ rwAliasApplies /\ rwExactApplies
    /\ rwByName.val[rwAliasTarget] # rwByName.val[rwKey]
    /\ rw_ret.wait = rwByName.val[rwAliasTarget]

\* C2: the fuzzy step returns only when the alias and exact steps failed, and
\* then it returns the wait of a best-scoring index key exactly when that
\* score is >= the threshold; below the threshold resolution goes on to the
\* geographic step.
C2_FuzzyThreshold ==
    rw_call # None =>
        /\ rw_ret.step = "fuzzy" =>
              /\ ~rwAliasApplies /\ ~rwExactApplies
              /\ LET sc == rwScores
                 IN \E k \in rwBest(sc) :
                       /\ 100 * sc[k][1] >= rw_call.threshold * sc[k][2]
                       /\ rw_ret.wait = rwByName.val[k]
        /\ (~rwAliasApplies /\ ~rwExactApplies /\ rwFuzzyApplies) => rw_ret.step = "fuzzy"
        /\ rwTailReached => rw_ret.step \in {"geo", "default", "empty"}

\* C2 witness: a fuzzy match accepted with a score equal to the threshold.
C2_Witness ==
    /\ rw_call # None
    /\ rw_ret.step = "fuzzy"
    /\ rw_call.threshold > 0
    /\ LET sc == rwScores
       IN \E k \in rwBest(sc) : 100 * sc[k][1] = rw_call.threshold * sc[k][2]

\* C3 as stated: when alias, exact and fuzzy fail, the coordinates are there
\* and the nearest record lies within the radius, the result is that record's
\* wait; in every other such case it is 0.
C3_GeoTailAsStated ==
    (rw_call # None /\ rwTailReached) =>
        IF CONG.geo # None /\ rw_call.lat # NoCoord /\ rwNearest # {}
           /\ \E i \in rwNearest : rwDistKm(i) <= rw_call.geo_radius_km * 100
        THEN \E i \in rwNearest : rw_ret.wait = rwGeoRows[i].wait
        ELSE rw_ret.wait = 0

\* C3 amended: the geographic step is taken only for a radius greater than 0;
\* with a radius of 0 the result is 0 even for a record at the port's position.
C3_GeoTail ==
    (rw_call # None /\ rwTailReached) =>
        IF CONG.geo # None /\ rw_call.lat # NoCoord /\ rwNearest # {}
           /\ rw_call.geo_radius_km > 0
           /\ \E i \in rwNearest : rwDistKm(i) <= rw_call.geo_radius_km * 100
        THEN rw_ret.step = "geo" /\ \E i \in rwNearest : rw_ret.wait = rwGeoRows[i].wait
        ELSE rw_ret.wait = 0 /\ rw_ret.step \in {"default", "empty"}

\* C3 witness: the nearest record, one degree away, taken within 200 km.
C3_Witness ==
    /\ rw_call # None /\ rwTailReached
    /\ rw_ret.step = "geo"
    /\ rw_ret.wait # 0
    /\ \E i \in rwNearest : rwDistKm(i) > 0

\* C4: the wait the resolver returns is a non-negative number.
C4_WaitNonNegative ==
    rw_call # None => IsFinite(rw_ret.wait) /\ rw_ret.wait >= 0

\* ------------------------------------------ claims about the evaluator

\* The last evaluation: the route_info it was given is ps_route, the
\* widget values ps_controls, what it returned ps_result.
psDf == IF ps_result = None THEN <<>> ELSE ps_result.df
psTable == {psDf[i].row.Port : i \in 1..Len(psDf)}
psList ==
    CandidateList(ps_route, wpi.rows, wpi.mains, wpi.ports_by_country, wpi.country_col,
                  ps_controls).candidates
\* The pool: the candidates of the country setting, without the origin,
\* that exist in the gazetteer.
psPool == {p \in {psList[i] : i \in 1..Len(psList)} :
              p # ps_route.origin /\ get_row_by_main(p, wpi.rows) # None}
\* Where the baseline destination is: the last vertex of the route.
psBaselineLat == ps_route.coords_lonlat[Len(ps_route.coords_lonlat)]
psLat(p) == latlon_from_row(get_row_by_main(p, wpi.rows))
psWithin(p) == _haversine_nm(psBaselineLat, psLat(p)) <= ps_controls.radius_nm * 100

\* C5: whatever the country and radius settings, the baseline destination
\* is a row of the ranked table, unless it is the voyage origin.
C5_BaselineIncluded ==
    ps_route # None /\ ps_route.destination # ps_route.origin
        => ps_route.destination \in psTable

\* C6: the voyage origin is never a row of the ranked table and never the
\* recommendation, also when the origin is the baseline destination.
C6_OriginExcluded ==
    ps_route # None /\ ps_result # None
        => /\ ps_route.origin \notin psTable
           /\ ps_result.best_row.row.Port # ps_route.origin

\* The origin is also the baseline destination, and a table was ranked.
C6_Witness ==
    /\ ps_route # None /\ ps_result # None
    /\ ps_route.origin = ps_route.destination
    /\ get_row_by_main(ps_route.origin, wpi.rows) # None
    /\ Len(psDf) >= 2

\* C7: with radius 0 every pool candidate appears; with a radius above 0
\* the ranked table holds exactly the pool candidates within that radius of
\* the baseline destination, whether or not the baseline is a gazetteer port.
C7_RadiusPrefilter ==
    ps_route # None
        => IF ps_controls.radius_nm = 0
           THEN psTable = psPool
           ELSE psTable = {p \in psPool : psWithin(p)}

\* The raw and the normalised column of a metric in the ranked table.
psRaw(m) ==
    [i \in 1..Len(psDf) |->
        CASE m = "ETA_h" -> psDf[i].row.ETA_h
          [] m = "Wait_h" -> psDf[i].row.Wait_h
          [] m = "Cost_USD" -> psDf[i].row.Cost_USD
          [] m = "CO2_t" -> psDf[i].row.CO2_t]
psNorm(m) ==
    [i \in 1..Len(psDf) |->
        CASE m = "ETA_h" -> psDf[i].ETA_h_norm
          [] m = "Wait_h" -> psDf[i].Wait_h_norm
          [] m = "Cost_USD" -> psDf[i].Cost_USD_norm
          [] m = "CO2_t" -> psDf[i].CO2_t_norm]
Metrics == {"ETA_h", "Wait_h", "Cost_USD", "CO2_t"}

psNormalised(raw, norm) ==
    /\ \A i \in DOMAIN norm : ~IsNaN(norm[i]) /\ 0 <= norm[i] /\ norm[i] <= NormScale
    /\ IF \A i, j \in DOMAIN raw : raw[i] = raw[j]
       THEN \A i \in DOMAIN norm : norm[i] = 0
       ELSE \A i \in DOMAIN raw :
               /\ (\A j \in DOMAIN raw : FLe(raw[i], raw[j])) => norm[i] = 0
               /\ (\A j \in DOMAIN raw : FLe(raw[j], raw[i])) => norm[i] = NormScale

\* C8: each normalised value of the four metrics lies in [0,1]; where the
\* range is not zero the minimum raw value gets 0 and the maximum 1; where
\* all candidates tie on a metric, a single candidate included, all get 0.
C8_MinMaxNormalised ==
    \A m \in Metrics : psNormalised(psRaw(m), psNorm(m))

\* The weighted sum of a row's normalised metrics, in plain arithmetic.
psWeightedSum(r) ==
    ps_controls.w_time * r.ETA_h_norm + ps_controls.w_cong * r.Wait_h_norm
        + ps_controls.w_cost * r.Cost_USD_norm + ps_controls.w_co2 * r.CO2_t_norm

\* C9: the score is the weighted sum of the normalised metrics, the table
\* is in non-decreasing order of score, the recommendation has the minimum
\* score, and with weight on congestion only, candidates of distinct waits
\* come in strictly ascending order of wait.
C9_RankedByScore ==
    /\ \A i \in 1..Len(psDf) :
          ~IsNaN(psDf[i].score) /\ psDf[i].score = psWeightedSum(psDf[i])
    /\ \A i, j \in 1..Len(psDf) : i < j => FLe(psDf[i].score, psDf[j].score)
    /\ ps_result # None =>
          \A i \in 1..Len(psDf) : FLe(ps_result.best_row.score, psDf[i].score)
    /\ ps_controls.w_cong > 0 /\ ps_controls.w_time = 0
         /\ ps_controls.w_cost = 0 /\ ps_controls.w_co2 = 0
          => \A i, j \in 1..Len(psDf) :
                i < j /\ psDf[i].row.Wait_h # psDf[j].row.Wait_h
                    => FLt(psDf[i].row.Wait_h, psDf[j].row.Wait_h)

\* C10: candidates of equal score come in the order in which they were
\* evaluated, so among tied best candidates the first evaluated is
\* recommended.
C10_TiesInEnumerationOrder ==
    /\ \A i, j \in 1..Len(psDf) :
          i < j /\ psDf[i].score = psDf[j].score /\ ~IsNaN(psDf[i].score)
              => psDf[i].enum < psDf[j].enum
    /\ ps_result # None =>
          \A i \in 1..Len(psDf) :
             psDf[i].score = ps_result.best_row.score /\ ~IsNaN(psDf[i].score)
                 => ps_result.best_row.enum <= psDf[i].enum

\* The candidates that survive the filters as the code applies them: the
\* pool, cut to the radius where the baseline is a gazetteer port.
psSurvivors ==
    {p \in psPool :
        get_row_by_main(ps_route.destination, wpi.rows) # None
            => ps_controls.radius_nm = 0 \/ psWithin(p)}

\* C11: when no candidate survives the country restriction, the radius
\* prefilter, the origin exclusion and the gazetteer lookup, the evaluation
\* returns None without an exception and the caller shows it as information.
C11_EmptyPoolIsReported ==
    ps_route # None /\ psSurvivors = {}
        => ps_result = None /\ ps_message = "info"

\* An evaluation with an empty pool happened.
C11_Witness ==
    /\ ps_route # None /\ psSurvivors = {}
    /\ psPool = {} /\ ps_route.origin = ps_route.destination
    /\ ps_message = "info"

\* C12: a candidate whose route call fails is left out and every other
\* surviving candidate is still evaluated and ranked; the evaluation is
\* never aborted.
C12_FailureIsolated ==
    ps_route # None
        => /\ ps_message # "exception"
           /\ psTable = {p \in psSurvivors : <<ps_route.coords_lonlat[1], psLat(p)>> \notin NoLane}

\* ----------------------------------------- claims about the cost model

fnDf == IF fnIs("evaluate_portswitch") /\ fn_ret.kind = "table" THEN fn_ret.df ELSE <<>>

\* C13: with a speed of 0 or less nothing is produced: no ranked table, and
\* no route summary whose fuel, CO2 and cost stand for a transit time of 0.
C13_NoSpeedIsAnError ==
    fn_call # None /\ fn_call.params.speed_kn <= 0
        => /\ fnIs("evaluate_portswitch") => fn_ret.kind # "table"
           /\ fnIs("summary") => "fuel_tonnes" \notin DOMAIN fn_ret

\* The cost model on a total time of t hundredths of an hour.
cmFuel(t, params) == FScale(t, params.cons_tpd, 24)
cmHolds(t, fuel, co2, cost, params) ==
    /\ fuel = cmFuel(t, params)
    /\ IsFinite(t) => fuel = (params.cons_tpd * t) \div 24
    /\ co2 = FScale(fuel, params.ef, 1000)
    /\ IsFinite(fuel) => co2 = (fuel * params.ef) \div 1000
    /\ cost = FScale(fuel, params.fuel_price, 100)
    /\ IsFinite(fuel) => cost = (fuel * params.fuel_price) \div 100
    /\ t = 0 => fuel = 0 /\ co2 = 0 /\ cost = 0

\* The transit time the summary of the main route stands on.
cmSummaryHours ==
    IF fn_call.params.speed_kn > 0 THEN fn_call.dist_nm_total \div fn_call.params.speed_kn ELSE 0

\* C14: fuel = consumption * total time / 24, CO2 = fuel * factor and
\* cost = fuel * price, for the main route and for every candidate (total
\* time = transit + wait); a total time of 0 gives 0 for all three; 9000 NM
\* at 18 kn, 30 t/day, 3.114 and 600 USD give 500 h, 625 t, 1946.25 t and
\* 375000 USD.
C14_CostModel ==
    /\ fnIs("summary") =>
          /\ cmHolds(cmSummaryHours, fn_ret.fuel_tonnes, fn_ret.co2_tonnes, fn_ret.cost_usd,
                     fn_call.params)
          /\ fn_call.dist_nm_total = 900000 /\ fn_call.params = DefaultParams
                => /\ fn_ret.eta_hours = 50000 /\ fn_ret.fuel_tonnes = 62500
                   /\ fn_ret.co2_tonnes = 194625 /\ fn_ret.cost_usd = 375000
    /\ \A i \in 1..Len(fnDf) :
          /\ fnDf[i].row.Adj_ETA_h = FAdd(fnDf[i].row.ETA_h, fnDf[i].row.Wait_h)
          /\ cmHolds(fnDf[i].row.Adj_ETA_h, fnDf[i].row.Fuel_t, fnDf[i].row.CO2_t,
                     fnDf[i].row.Cost_USD, fn_call.params)

\* A table was computed in which a candidate waits, with a consumption.
C14_Witness ==
    /\ fnIs("evaluate_portswitch") /\ fn_call.params.cons_tpd > 0
    /\ fn_call.params.speed_kn > 0
    /\ \E i \in 1..Len(fnDf) :
          /\ IsFinite(fnDf[i].row.Wait_h) /\ fnDf[i].row.Wait_h > 0
          /\ fnDf[i].row.ETA_h > 0

\* ---------------------------------------- claims about the route cache

\* C15: routes are memoised by the ordered endpoints: a call whose key is in
\* the cache does not call the oracle, a call whose key is not does; an
\* entry serves its own direction only; and with entries evicted or the
\* cache discarded the result is what the oracle gives for the endpoints.
C15_RouteMemoised ==
    /\ Len(route_cache) <= CacheSize
    /\ \A i \in 1..Len(route_cache) :
          route_cache[i].value = searoute(route_cache[i].key[1], route_cache[i].key[2])
    /\ fnIs("compute_route") =>
          /\ fn_call.cached <=> ~fn_ret.oracle_called
          /\ fn_ret.value = compute_route(fn_call.a_lat, fn_call.b_lat)

\* A route was served from the cache while the route of the opposite
\* direction, another route, was in the cache too.
C15_Witness ==
    /\ fnIs("compute_route") /\ fn_call.cached /\ fn_call.reverse_cached
    /\ fn_call.a_lat # fn_call.b_lat
    /\ ~fn_ret.oracle_called
    /\ fn_ret.value # compute_route(fn_call.b_lat, fn_call.a_lat)

\* ------------------------------------ claims about the path of a voyage

RECURSIVE SeqSum(_)
SeqSum(xs) == IF xs = <<>> THEN 0 ELSE xs[1] + SeqSum(Tail(xs))

\* The route the oracle gives for the k-th leg of the stored route.
rtLeg(k) ==
    compute_route(Stop(route_info.legs[k].a, wpi.rows).lat, Stop(route_info.legs[k].b, wpi.rows).lat)

\* Where the k-th leg's first vertex stands in the stored vertex sequence:
\* on the last vertex of the leg before.
RECURSIVE rtStart(_)
rtStart(k) == IF k = 1 THEN 1 ELSE rtStart(k - 1) + Len(rtLeg(k - 1).coords) - 1

rtLegs == 1..Len(route_info.legs)

\* C16: in a stored route of two or more legs every leg's vertices stand in
\* the vertex sequence in order, each leg beginning on the last vertex of
\* the leg before, which is there once, and nothing else is there; the
\* totals in km and NM are the sums over the legs.
C16_LegsConcatenated ==
    route_info # None /\ Len(route_info.legs) >= 2
        => /\ \A k \in rtLegs :
                 SubSeq(route_info.coords_lonlat, rtStart(k), rtStart(k) + Len(rtLeg(k).coords) - 1)
                    = rtLeg(k).coords
           /\ Len(route_info.coords_lonlat)
                 = SeqSum([k \in rtLegs |-> Len(rtLeg(k).coords)]) - (Len(route_info.legs) - 1)
           /\ \A k \in rtLegs :
                 route_info.legs[k].km = rtLeg(k).km /\ route_info.legs[k].nm = rtLeg(k).nm
           /\ route_info.distance_km = SeqSum([k \in rtLegs |-> route_info.legs[k].km])
           /\ route_info.distance_nm = SeqSum([k \in rtLegs |-> route_info.legs[k].nm])

\* A route of three legs was stored and drawn.
C16_Witness ==
    /\ route_info # None /\ Len(route_info.legs) = 3
    /\ Len(route_info.coords_lonlat) = 4
    /\ route_info.distance_km > 0
    /\ ps_message # "exception"

\* The ports of the submitted form, and whether the oracle routes between
\* any two of them.
ptPorts == {fn_call.origin, fn_call.dest} \cup SeqRange(fn_call.stops)
ptRoutable ==
    \A a, b \in ptPorts : <<Stop(a, wpi.rows).lat, Stop(b, wpi.rows).lat>> \notin NoLane

\* The names along the stored route: the first leg's start, then every
\* leg's end.
ptPath ==
    IF route_info.legs = <<>> THEN <<route_info.origin>>
    ELSE <<route_info.legs[1].a>> \o [k \in rtLegs |-> route_info.legs[k].b]

\* C20: after a submit with stops, "optimize order" checked or not, the
\* path starts at the origin, passes every stop once and ends at the
\* destination, so the route has a leg and vertices; with "optimize order"
\* checked no order of the stops has a smaller total NM.
C20_PathThroughStops ==
    fnIs("submit") /\ fn_call.stops # <<>> /\ ptRoutable
        => /\ route_info # None
           /\ Len(route_info.legs) >= 1
           /\ route_info.coords_lonlat # <<>>
           /\ Len(ptPath) = Len(fn_call.stops) + 2
           /\ ptPath[1] = fn_call.origin
           /\ ptPath[Len(ptPath)] = fn_call.dest
           /\ \A i \in 1..Len(fn_call.stops) :
                 Cardinality({k \in 2..(Len(ptPath) - 1) : ptPath[k] = fn_call.stops[i]}) = 1
           /\ fn_call.optimize =>
                 \A p \in Permutations(1..Len(fn_call.stops)) :
                    route_info.distance_nm
                       <= PathNm(Resolved(Stop(fn_call.origin, wpi.rows), Stop(fn_call.dest, wpi.rows),
                                          PermOf(fn_call.stops, p), wpi.rows))

\* ----------------------------------------- claims about canonical names

\* C17: canon_name of what canon_name returned is what it returned, and
\* the empty string gives the empty string.
C17_CanonIdempotent ==
    fnIs("canon_name")
        => /\ fn_ret.again = fn_ret.key
           /\ fn_call.s = <<>> => fn_ret.key = <<>>

\* A name with a stopword behind a hyphen was canonicalised to a key that
\* is not the name.
C17_Witness ==
    /\ fnIs("canon_name")
    /\ \E i \in 1..Len(fn_call.s) : fn_call.s[i] = "-"
    /\ \E i \in 1..Len(fn_call.s) : fn_call.s[i] = "t"
    /\ fn_ret.key # <<>> /\ fn_ret.key # fn_call.s
    /\ Len(fn_ret.key) < Len(fn_call.s) - 1

\* C18: two names that differ only by a punctuation character, the case or
\* the accent of a letter, or a stopword have the same key, and the record
\* of the one is found under the key of the other.
C18_SameKey ==
    fnIs("join")
        => /\ fn_ret.ka = fn_ret.kb
           /\ fn_ret.ka # <<>> => Has(fn_ret.by_name, fn_ret.kb)

\* ------------------------------------------- claims about the risk scan

rkRows == IF fn_call.piracy_df = None THEN {} ELSE fn_call.piracy_df.rows
rkLine == route_line(fn_call.route_coords_lonlat)
rkBuf == fn_call.buffer_km * 100

\* The incident is on the route line.
rkOnLine(pt) ==
    pt.x = 0 /\ \E k \in 1..(Len(rkLine) - 1) :
                    Min(rkLine[k], rkLine[k + 1]) <= pt.y /\ pt.y <= Max(rkLine[k], rkLine[k + 1])

\* The incident is farther than the buffer from the route.
rkOutside(pt) == \A k \in 1..(Len(rkLine) - 1) : SegDist2(pt, rkLine[k], rkLine[k + 1]) > Sq(rkBuf)

\* C19: for every route, table and buffer the scan returns hits and total
\* with: every incident on the line a hit, no incident beyond the buffer a
\* hit, no incident within the buffer outside the box, hits <= total; and
\* (0, 0) for an empty or missing table.
C19_RiskScan ==
    fnIs("piracy_hits_along_route") /\ fn_call.buffer_km > 0
        => /\ ~fn_ret.raised
           /\ rkRows = {} => fn_ret.risk_hits = 0 /\ fn_ret.total_inc = 0
           /\ rkRows # {} =>
                 /\ fn_ret.total_inc = Cardinality(rkRows)
                 /\ fn_ret.risk_hits <= fn_ret.total_inc
                 /\ fn_ret.risk_hits >= Cardinality({pt \in rkRows : rkOnLine(pt)})
                 /\ fn_ret.risk_hits <= Cardinality({pt \in rkRows : ~rkOutside(pt)})
                 /\ \A pt \in rkRows : ~rkOutside(pt) => pt \in fn_ret.cand

\* ------------------------------- claims about the baseline and the data

\* The destination chosen at submit: the end of the last leg, which
\* "Choose Best Route" leaves as it is.
bdOriginal(ri) == ri.legs[Len(ri.legs)].b

\* The original destination is a port of the gazetteer, at this latitude.
bdOriginalLat(ri) == latlon_from_row(get_row_by_main(bdOriginal(ri), wpi.rows))

\* C21: the baseline destination of every evaluation after a submit is the
\* destination chosen at the submit, and with a radius set every port of
\* the table, the ports "Choose Best Route" can select, is within the
\* radius of that destination.
C21_BaselineIsOriginal ==
    ps_route # None
        => /\ ps_route.destination = bdOriginal(ps_route)
           /\ (ps_controls.radius_nm > 0 /\ get_row_by_main(bdOriginal(ps_route), wpi.rows) # None)
                 => \A p \in psTable :
                       _haversine_nm(bdOriginalLat(ps_route), psLat(p))
                          <= ps_controls.radius_nm * 100

\* C22: the gazetteer, the congestion index and the alias map are those of
\* the start, and after every evaluation ports_by_country is what load_wpi
\* gave.
C22_InputsUnchanged ==
    /\ wpi = load_wpi([rows |-> WpiRows, has_country |-> TRUE])
    /\ \E f \in Sessions :
          CONG = load_congestion_advanced(f.cong) /\ ALIAS = load_alias_map(f.alias)
    /\ ports_by_country = wpi.ports_by_country
====
